---- MODULE Spec2Model ----
(***************************************************************************)
(* The client-side orchestration of examples/realtime_voice_assistant.vue: *)
(* the WebSocket connection lifecycle (connect, heartbeat, reconnect), the *)
(* inbound message dispatcher, the streaming conversation and the          *)
(* sequential audio playback queue.                                        *)
(*                                                                         *)
(* The component's refs are the variables.  Every handler of the script is *)
(* an operator from a state record S (the values of all refs when the      *)
(* handler starts) to the state record it leaves, written statement by     *)
(* statement in the order of the source; an action applies one handler to  *)
(* the current state.  The browser is the environment: socket events,      *)
(* timers, media events, promise reactions and the user's clicks are the   *)
(* actions, each running the handler the script attached to it.            *)
(***************************************************************************)
EXTENDS Integers, Sequences, FiniteSets, Bags, TLC

(***************************************************************************)
(* Bounds of the model.                                                    *)
(***************************************************************************)
MaxSockets == 3
MaxPendingConnects == 2
MaxSegments == 3
MaxEntries == 4
MaxRequests == 1
MaxAttempts == 5

(***************************************************************************)
(* Program constants.                                                      *)
(***************************************************************************)
maxReconnectAttempts == 3
reconnectDelay == 1000
NormalClosure == 1000

\* Close codes a close event can carry: 1000 normal closure, 1005 no status
\* code in the closing handshake, 1006 abnormal closure.
CloseCodes == {1000, 1005, 1006}

VARIABLES
  \* refs of setup()
  socket,             \* socket.value: 0 is null, else the id of a WebSocket
  isConnected,
  isVoiceChatting,
  isSpeaking,
  clientId,
  historyId,
  selectedModel,
  availableModels,
  audioQueue,
  currentAudio,
  isPlaying,
  audioProgress,
  statusText,
  connectionStatus,   \* <<connectionStatusText, connectionStatusClass>>
  conversationHistory,
  logs,               \* the entries the latest step appended to logs.value
  reconnectCount,
  heartbeatInterval,  \* TRUE when the interval is set, FALSE when null
  progressInterval,
  \* the browser
  sockets,            \* the WebSocket objects created so far, by id
  reconnectTimers,    \* bag of the delays of the pending reconnect timeouts
  timeoutTimers,      \* pending connectionTimeout timers, by their attempt's socket
  graceWaiting,       \* connectWebSocket calls suspended at the 500 ms await
  closeEventDue,      \* socket whose close event follows its error event, else 0
  fetching,           \* fetchAvailableModels requests in flight
  creating,           \* createNewHistory requests in flight
  player,             \* the <audio> element
  rejections,         \* rejected play() promises whose catch has not run yet
  mounted,
  \* observation
  sent,               \* the frames the latest step sent, as <<socket, frame>>
  last,               \* the handler the latest step ran
  arrived,            \* every segment ever pushed on audioQueue, in order
  played,             \* every segment that became currentAudio, in order
  chunks,             \* the content of every llm_stream_chunk received, in order
  received,           \* the frame the latest step received, as <<frame>>, else <<>>
  userClosed          \* the user disconnected and has not called connect since

vars == <<socket, isConnected, isVoiceChatting, isSpeaking, clientId, historyId,
          selectedModel, availableModels, audioQueue, currentAudio, isPlaying,
          audioProgress, statusText, connectionStatus, conversationHistory, logs,
          reconnectCount, heartbeatInterval, progressInterval, sockets,
          reconnectTimers, timeoutTimers, graceWaiting, closeEventDue, fetching,
          creating, player, rejections, mounted, sent, last, arrived, played,
          chunks, received, userClosed>>

\* currentAudio.value = null
NullAudio == [url |-> <<>>, text |-> ""]

Cur ==
  [socket |-> socket, isConnected |-> isConnected,
   isVoiceChatting |-> isVoiceChatting, isSpeaking |-> isSpeaking,
   clientId |-> clientId, historyId |-> historyId,
   selectedModel |-> selectedModel, availableModels |-> availableModels,
   audioQueue |-> audioQueue, currentAudio |-> currentAudio,
   isPlaying |-> isPlaying, audioProgress |-> audioProgress,
   statusText |-> statusText, connectionStatus |-> connectionStatus,
   conversationHistory |-> conversationHistory, logs |-> logs,
   reconnectCount |-> reconnectCount, heartbeatInterval |-> heartbeatInterval,
   progressInterval |-> progressInterval, sockets |-> sockets,
   reconnectTimers |-> reconnectTimers, timeoutTimers |-> timeoutTimers,
   graceWaiting |-> graceWaiting, closeEventDue |-> closeEventDue,
   fetching |-> fetching, creating |-> creating, player |-> player,
   rejections |-> rejections, mounted |-> mounted, sent |-> sent,
   last |-> last, arrived |-> arrived, played |-> played, chunks |-> chunks,
   received |-> received, userClosed |-> userClosed]

Set(S) ==
  /\ socket' = S.socket
  /\ isConnected' = S.isConnected
  /\ isVoiceChatting' = S.isVoiceChatting
  /\ isSpeaking' = S.isSpeaking
  /\ clientId' = S.clientId
  /\ historyId' = S.historyId
  /\ selectedModel' = S.selectedModel
  /\ availableModels' = S.availableModels
  /\ audioQueue' = S.audioQueue
  /\ currentAudio' = S.currentAudio
  /\ isPlaying' = S.isPlaying
  /\ audioProgress' = S.audioProgress
  /\ statusText' = S.statusText
  /\ connectionStatus' = S.connectionStatus
  /\ conversationHistory' = S.conversationHistory
  /\ logs' = S.logs
  /\ reconnectCount' = S.reconnectCount
  /\ heartbeatInterval' = S.heartbeatInterval
  /\ progressInterval' = S.progressInterval
  /\ sockets' = S.sockets
  /\ reconnectTimers' = S.reconnectTimers
  /\ timeoutTimers' = S.timeoutTimers
  /\ graceWaiting' = S.graceWaiting
  /\ closeEventDue' = S.closeEventDue
  /\ fetching' = S.fetching
  /\ creating' = S.creating
  /\ player' = S.player
  /\ rejections' = S.rejections
  /\ mounted' = S.mounted
  /\ sent' = S.sent
  /\ last' = S.last
  /\ arrived' = S.arrived
  /\ played' = S.played
  /\ chunks' = S.chunks
  /\ received' = S.received
  /\ userClosed' = S.userClosed

\* The state a handler starts from when the browser runs it as the step `op`.
Run(op) ==
  [Cur EXCEPT !.logs = <<>>, !.sent = <<>>, !.received = <<>>, !.last = op]

Init ==
  /\ socket = 0
  /\ isConnected = FALSE
  /\ isVoiceChatting = FALSE
  /\ isSpeaking = FALSE
  /\ clientId = "null"
  /\ historyId = ""
  /\ selectedModel = ""
  /\ availableModels = <<>>
  /\ audioQueue = <<>>
  /\ currentAudio = NullAudio
  /\ isPlaying = FALSE
  /\ audioProgress = 0
  /\ statusText = <<"waiting">>
  /\ connectionStatus = <<"not connected", "disconnected">>
  /\ conversationHistory = <<>>
  /\ logs = <<<<"page loaded", 0>>>>
  /\ reconnectCount = 0
  /\ heartbeatInterval = FALSE
  /\ progressInterval = FALSE
  /\ sockets = <<>>
  /\ reconnectTimers = EmptyBag
  /\ timeoutTimers = {}
  /\ graceWaiting = 0
  /\ closeEventDue = 0
  /\ fetching = 0
  /\ creating = 0
  /\ player = "empty"
  /\ rejections = 0
  /\ mounted = TRUE
  /\ sent = <<>>
  /\ last = "onMounted"
  /\ arrived = <<>>
  /\ played = <<>>
  /\ chunks = <<>>
  /\ received = <<>>
  /\ userClosed = FALSE

(***************************************************************************)
(* Utility functions of the script.                                        *)
(***************************************************************************)
updateConnectionStatus(S, text, status) ==
  [S EXCEPT !.connectionStatus = <<text, status>>]

updateStatus(S, message) == [S EXCEPT !.statusText = message]

\* A log entry is <<message, argument>>; the timestamp prefix is left out.
addToLog(S, message, arg) == [S EXCEPT !.logs = Append(@, <<message, arg>>)]

(***************************************************************************)
(* WebSocket objects.                                                      *)
(***************************************************************************)
readyState(S, s) == S.sockets[s].readyState

IsOpen(S) == S.socket # 0 /\ readyState(S, S.socket) = "OPEN"

\* WebSocket.close(): starts the closing handshake of a connecting or open
\* socket; nothing on one that is closing or closed.
close(S, s) ==
  IF readyState(S, s) \in {"CONNECTING", "OPEN"}
    THEN [S EXCEPT !.sockets[s].readyState = "CLOSING"]
    ELSE S

\* WebSocket.send() on an open socket.
send(S, frame) == [S EXCEPT !.sent = Append(@, <<S.socket, frame>>)]

(***************************************************************************)
(* Heartbeat.                                                              *)
(***************************************************************************)
stopHeartbeat(S) ==
  IF S.heartbeatInterval THEN [S EXCEPT !.heartbeatInterval = FALSE] ELSE S

startHeartbeat(S) == [stopHeartbeat(S) EXCEPT !.heartbeatInterval = TRUE]

\* The setInterval callback without the test of the socket.
heartbeatTick_NoCheck(S) == send(S, "ping")

\* The setInterval callback of startHeartbeat.
heartbeatTick(S) ==
  IF IsOpen(S) THEN send(S, "ping") ELSE stopHeartbeat(S)

(***************************************************************************)
(* Failure handling and reconnection.                                      *)
(***************************************************************************)
\* handleDisconnect without the limit on the attempts.
handleDisconnect_Unbounded(S, code) ==
  LET S1 == stopHeartbeat(S)
      S2 == [S1 EXCEPT !.isConnected = FALSE, !.isVoiceChatting = FALSE,
                       !.isSpeaking = FALSE]
      S3 == updateConnectionStatus(S2, "not connected", "disconnected")
      S4 == addToLog(S3, "closed", code)
  IN IF code # NormalClosure
       THEN LET S5 == [S4 EXCEPT !.reconnectCount = @ + 1]
                delay == reconnectDelay * S5.reconnectCount
                S6 == addToLog(S5, "reconnect in", delay)
            IN [S6 EXCEPT !.reconnectTimers = @ (+) SetToBag({delay})]
       ELSE S4

\* handleDisconnect without the test of the close code.
handleDisconnect_AnyCode(S, code) ==
  LET S1 == stopHeartbeat(S)
      S2 == [S1 EXCEPT !.isConnected = FALSE, !.isVoiceChatting = FALSE,
                       !.isSpeaking = FALSE]
      S3 == updateConnectionStatus(S2, "not connected", "disconnected")
      S4 == addToLog(S3, "closed", code)
  IN IF S4.reconnectCount < maxReconnectAttempts
       THEN LET S5 == [S4 EXCEPT !.reconnectCount = @ + 1]
                delay == reconnectDelay * S5.reconnectCount
                S6 == addToLog(S5, "reconnect in", delay)
            IN [S6 EXCEPT !.reconnectTimers = @ (+) SetToBag({delay})]
       ELSE S4

handleDisconnect(S, code) ==
  LET S1 == stopHeartbeat(S)
      S2 == [S1 EXCEPT !.isConnected = FALSE, !.isVoiceChatting = FALSE,
                       !.isSpeaking = FALSE]
      S3 == updateConnectionStatus(S2, "not connected", "disconnected")
      S4 == addToLog(S3, "closed", code)
  IN IF code # NormalClosure /\ S4.reconnectCount < maxReconnectAttempts
       THEN LET S5 == [S4 EXCEPT !.reconnectCount = @ + 1]
                delay == reconnectDelay * S5.reconnectCount
                S6 == addToLog(S5, "reconnect in", delay)
            IN [S6 EXCEPT !.reconnectTimers = @ (+) SetToBag({delay})]
       ELSE S4

\* handleConnectionError with a delay that doubles with each attempt.
handleConnectionError_Doubling(S, error) ==
  LET S1 == addToLog(S, "connection error", error)
      S2 == updateConnectionStatus(S1, "connect failed", "disconnected")
  IN IF S2.reconnectCount < maxReconnectAttempts
       THEN LET S3 == [S2 EXCEPT !.reconnectCount = @ + 1]
                delay == reconnectDelay * 2 ^ (S3.reconnectCount - 1)
                S4 == addToLog(S3, "reconnect in", delay)
            IN [S4 EXCEPT !.reconnectTimers = @ (+) SetToBag({delay})]
       ELSE S2

handleConnectionError(S, error) ==
  LET S1 == addToLog(S, "connection error", error)
      S2 == updateConnectionStatus(S1, "connect failed", "disconnected")
  IN IF S2.reconnectCount < maxReconnectAttempts
       THEN LET S3 == [S2 EXCEPT !.reconnectCount = @ + 1]
                delay == reconnectDelay * S3.reconnectCount
                S4 == addToLog(S3, "reconnect in", delay)
            IN [S4 EXCEPT !.reconnectTimers = @ (+) SetToBag({delay})]
       ELSE S2

\* fetchAvailableModels up to its await: the request is in flight.
fetchAvailableModels(S) == [S EXCEPT !.fetching = @ + 1]

\* socket.onopen of the socket s created by one connectWebSocket call; its
\* connectionTimeout is the timer that call set.
onopen(S, s) ==
  LET S1 == [S EXCEPT !.timeoutTimers = @ \ {s}]
      S2 == [S1 EXCEPT !.isConnected = TRUE, !.reconnectCount = 0]
      S3 == updateConnectionStatus(S2, "connected", "connected")
      S4 == addToLog(S3, "connection established", s)
  IN startHeartbeat(fetchAvailableModels(S4))

\* connectWebSocket from the status update on: lines 165 to 190.  apiUrl keeps
\* a well-formed ws: address (its default), so new WebSocket does not throw
\* and the catch of lines 192 to 194 is not entered.
openSocket(S) ==
  LET S1 == updateConnectionStatus(S, "connecting", "processing")
      S2 == addToLog(S1, "connecting", 0)
      s == Len(S2.sockets) + 1
  IN [S2 EXCEPT !.sockets = Append(@, [readyState |-> "CONNECTING",
                                        opened |-> FALSE]),
                !.socket = s,
                !.timeoutTimers = @ \cup {s}]

\* connectWebSocket up to its await: with a socket reference it closes it and
\* suspends for the grace delay, otherwise it goes on at once.
connectWebSocket(S) ==
  IF S.socket # 0
    THEN [close(S, S.socket) EXCEPT !.graceWaiting = @ + 1]
    ELSE openSocket(S)

\* connectWebSocket resumed after the grace delay.
connectResume(S) ==
  openSocket([S EXCEPT !.graceWaiting = @ - 1, !.socket = 0])

disconnectWebSocket(S) ==
  IF S.socket # 0 THEN close(S, S.socket) ELSE S

\* The setTimeout callback of connectWebSocket (5000 ms).
connectionTimeout(S) ==
  IF S.socket # 0 /\ readyState(S, S.socket) # "OPEN"
    THEN handleConnectionError(close(S, S.socket), "timeout")
    ELSE S

(***************************************************************************)
(* Connection actions.                                                     *)
(***************************************************************************)
\* The browser runs one task at a time: the close event of a failed socket
\* follows its error event in the same task, and the reaction of a rejected
\* promise runs before the next task.
TaskFree == closeEventDue = 0 /\ rejections = 0

\* A connectWebSocket call may start while fewer than cap sockets exist.
CanConnectWithin(cap) ==
  /\ Len(sockets) < cap
  /\ socket # 0 => graceWaiting < MaxPendingConnects

CanConnect == CanConnectWithin(MaxSockets)

\* The user clicks the connect button (disabled while isConnected).
ClickConnect ==
  /\ TaskFree /\ mounted /\ ~isConnected /\ CanConnect
  /\ Set(connectWebSocket([Run("connectWebSocket") EXCEPT !.userClosed = FALSE]))

\* A reconnect timer set by handleDisconnect or handleConnectionError fires.
ReconnectTimerWithin(cap) ==
  /\ TaskFree /\ CanConnectWithin(cap)
  /\ \E delay \in BagToSet(reconnectTimers) :
       Set(connectWebSocket(
             [Run("reconnect timer") EXCEPT
                !.reconnectTimers = @ (-) SetToBag({delay})]))

ReconnectTimer == ReconnectTimerWithin(MaxSockets)

\* The 500 ms grace delay of a suspended connectWebSocket call elapses.
GraceElapsedWithin(cap) ==
  /\ TaskFree /\ graceWaiting > 0 /\ Len(sockets) < cap
  /\ Set(connectResume(Run("connectWebSocket resumed")))

GraceElapsed == GraceElapsedWithin(MaxSockets)

\* A connectionTimeout timer fires.
ConnectionTimeout ==
  /\ TaskFree
  /\ \E t \in timeoutTimers :
       Set(connectionTimeout(
             [Run("connectionTimeout") EXCEPT !.timeoutTimers = @ \ {t}]))

\* The opening handshake of socket s completes.
OnOpen ==
  /\ TaskFree
  /\ \E s \in 1..Len(sockets) :
       /\ sockets[s].readyState = "CONNECTING"
       /\ Set(onopen([Run("onopen") EXCEPT
                        !.sockets[s] = [readyState |-> "OPEN", opened |-> TRUE]], s))

\* Socket s fails (it cannot connect, or its connection breaks): the browser
\* fires error at it, and close with code 1006 next.
OnError ==
  /\ TaskFree
  /\ \E s \in 1..Len(sockets) :
       /\ sockets[s].readyState \in {"CONNECTING", "OPEN", "CLOSING"}
       /\ Set(handleConnectionError(
                [Run("onerror") EXCEPT !.sockets[s].readyState = "CLOSED",
                                       !.closeEventDue = s], "error event"))

\* The close event of socket s: after its error event with code 1006;
\* otherwise the connection of a socket that was open ends, through the
\* closing handshake or without one, with any of the close codes.
OnClose ==
  /\ rejections = 0
  /\ \E s \in 1..Len(sockets), code \in CloseCodes :
       /\ \/ closeEventDue = s /\ code = 1006
          \/ /\ closeEventDue = 0
             /\ sockets[s].readyState \in {"OPEN", "CLOSING"}
             /\ sockets[s].opened
       /\ Set(handleDisconnect(
                [Run("onclose") EXCEPT !.sockets[s].readyState = "CLOSED",
                                       !.closeEventDue = 0], code))

\* The user clicks the disconnect button (disabled unless isConnected).
ClickDisconnect ==
  /\ TaskFree /\ mounted /\ isConnected
  /\ Set(disconnectWebSocket([Run("disconnectWebSocket") EXCEPT !.userClosed = TRUE]))

\* The heartbeat interval fires (every 10 s).
HeartbeatTick ==
  /\ TaskFree /\ heartbeatInterval
  /\ Set(heartbeatTick(Run("heartbeat")))

(***************************************************************************)
(* Model list, history id and session parameters.                          *)
(***************************************************************************)
\* updateParams without the test of the history id.
updateParams_NoHistoryCheck(S) ==
  IF ~IsOpen(S)
    THEN addToLog(S, "not connected, cannot update parameters", 0)
  ELSE IF S.selectedModel = ""
    THEN addToLog(S, "warning: no model selected", 0)
  ELSE addToLog(send(S, <<"set_params", S.selectedModel, S.historyId>>),
                "session parameters updated", 0)

\* updateParams: lines 514 to 537.
updateParams(S) ==
  IF ~IsOpen(S)
    THEN addToLog(S, "not connected, cannot update parameters", 0)
  ELSE IF S.selectedModel = ""
    THEN addToLog(S, "warning: no model selected", 0)
  ELSE IF S.historyId = ""
    THEN addToLog(S, "warning: no history id", 0)
  ELSE addToLog(send(S, <<"set_params", S.selectedModel, S.historyId>>),
                "session parameters updated", 0)

\* fetchAvailableModels after its await.  outcome is "ok" (response.ok),
\* "failed" (a response that is not ok) or "throw" (fetch rejects); models is
\* data['available-models'].
fetchDone(S, outcome, models) ==
  LET S1 == [S EXCEPT !.fetching = @ - 1]
  IN CASE outcome = "ok" ->
            [S1 EXCEPT !.availableModels = models,
                       !.selectedModel = IF models = <<>> THEN "" ELSE models[1]]
       [] outcome = "failed" -> S1
       [] OTHER -> addToLog(S1, "fetching the model list failed", 0)

\* createNewHistory up to its await, and after it.
createNewHistory(S) == [S EXCEPT !.creating = @ + 1]

createDone(S, outcome, id) ==
  LET S1 == [S EXCEPT !.creating = @ - 1]
  IN CASE outcome = "ok" ->
            updateParams(addToLog([S1 EXCEPT !.historyId = id],
                                  "created a new conversation", 0))
       [] outcome = "failed" -> S1
       [] OTHER -> addToLog(S1, "creating the conversation failed", 0)

startBtnDisabled ==
  ~isConnected \/ historyId = "" \/ selectedModel = "" \/ isVoiceChatting

startVoiceChat(S) ==
  IF ~IsOpen(S)
    THEN addToLog(S, "not connected", 0)
    ELSE updateStatus([send(S, <<"start">>) EXCEPT !.isVoiceChatting = TRUE],
                      <<"voice chat started">>)

stopVoiceChat(S) ==
  IF ~IsOpen(S)
    THEN S
    ELSE updateStatus([send(S, <<"stop">>) EXCEPT !.isVoiceChatting = FALSE,
                                                  !.isSpeaking = FALSE],
                      <<"voice chat stopped">>)

ModelLists == {<<>>, <<"m1">>}
HistoryIds == {"", "h1"}
HttpOutcomes == {"ok", "failed", "throw"}

\* The response of GET /llm/available-models arrives.
FetchDone ==
  /\ TaskFree /\ fetching > 0
  /\ \E outcome \in HttpOutcomes, models \in ModelLists :
       Set(fetchDone(Run("fetchAvailableModels"), outcome, models))

\* The user picks a model: v-model writes selectedModel, @change runs updateParams.
SelectModel ==
  /\ TaskFree /\ mounted
  /\ \E i \in 1..Len(availableModels) :
       Set(updateParams([Run("updateParams") EXCEPT
                           !.selectedModel = availableModels[i]]))

\* The user types in the history id field: v-model writes historyId.
TypeHistoryId ==
  /\ TaskFree /\ mounted
  /\ \E h \in HistoryIds : Set([Run("input") EXCEPT !.historyId = h])

\* The history id field fires change: updateParams alone.
ChangeHistoryId ==
  /\ TaskFree /\ mounted
  /\ Set(updateParams(Run("updateParams")))

\* The user clicks the new conversation button (disabled unless isConnected).
ClickCreateHistory ==
  /\ TaskFree /\ mounted /\ isConnected /\ creating < MaxRequests
  /\ Set(createNewHistory(Run("createNewHistory")))

\* The response of POST /llm/history/new arrives.
CreateDone ==
  /\ TaskFree /\ creating > 0
  /\ \E outcome \in HttpOutcomes :
       Set(createDone(Run("createNewHistory resumed"), outcome, "h2"))

ClickStartVoiceChat ==
  /\ TaskFree /\ mounted /\ ~startBtnDisabled
  /\ Set(startVoiceChat(Run("startVoiceChat")))

ClickStopVoiceChat ==
  /\ TaskFree /\ mounted /\ isVoiceChatting
  /\ Set(stopVoiceChat(Run("stopVoiceChat")))

(***************************************************************************)
(* Conversation.                                                           *)
(***************************************************************************)
\* A field a message does not carry reads as undefined.
Undefined == "undefined"

\* An entry's text is the sequence of the strings concatenated into it.
addMessageToConversation(S, text, sender, className) ==
  [S EXCEPT !.conversationHistory =
              Append(@, [text |-> text, sender |-> sender, className |-> className])]

\* Array.prototype.find: the first entry holding the class, 0 when none does.
find(history, className) ==
  IF \E i \in 1..Len(history) : history[i].className = className
    THEN CHOOSE i \in 1..Len(history) :
           /\ history[i].className = className
           /\ \A j \in 1..(i - 1) : history[j].className # className
    ELSE 0

appendToLastMessage(S, text) ==
  LET lastMessage == find(S.conversationHistory, "assistant-response-building")
  IN IF lastMessage # 0
       THEN [S EXCEPT !.conversationHistory[lastMessage].text = @ \o <<text>>]
       ELSE S

\* The class the template gives the element of an entry: lines 67 to 71.
RenderedClass(message) ==
  IF message.sender = "user" THEN "user-message" ELSE "assistant-message"

\* document.querySelector('.' + className) over the rendered conversation:
\* TRUE when an element matches.
querySelector(S, className) ==
  \E i \in 1..Len(S.conversationHistory) :
    RenderedClass(S.conversationHistory[i]) = className

handleRecognitionResult(S, message) ==
  LET S1 == addMessageToConversation(S, <<message.text>>, "user", "")
      S2 == updateStatus(S1, <<"recognized", message.text>>)
  IN [S2 EXCEPT !.isSpeaking = FALSE]

handleLLMStreamChunk(S, message) ==
  LET S1 == IF ~querySelector(S, "assistant-response-building")
              THEN addMessageToConversation(S, <<>>, "assistant",
                                            "assistant-response-building")
              ELSE S
  IN appendToLastMessage(S1, message.content)

handleError(S, message) ==
  updateStatus(addToLog(S, "error", message.message), <<"error", message.message>>)

(***************************************************************************)
(* Audio playback queue.                                                   *)
(***************************************************************************)
\* window.location.protocol + '//' + window.location.hostname + ':8000' + url
FullUrl(url) == <<"page-origin:8000", url>>

\* playNextAudio.  The audioPlayer ref holds the element while the component
\* is mounted.  Binding a new src while the play() promise of the previous
\* one is pending rejects that promise (AbortError); startOk is whether the
\* browser lets play() start, else the promise it returns is rejected.
playNextAudio(S, startOk) ==
  IF Len(S.audioQueue) > 0 /\ ~S.isPlaying
    THEN LET S1 == [S EXCEPT !.isPlaying = TRUE,
                             !.currentAudio = S.audioQueue[1],
                             !.audioProgress = 0,
                             !.played = Append(@, S.audioQueue[1])]
             aborted == IF S1.player = "loading" THEN 1 ELSE 0
         IN IF S1.mounted
              THEN IF startOk
                     THEN [S1 EXCEPT !.player = "loading",
                                     !.rejections = @ + aborted]
                     ELSE [S1 EXCEPT !.player = "paused",
                                     !.rejections = @ + aborted + 1]
              ELSE S1
    ELSE S

\* onAudioEnded that does not go on to the next segment.
onAudioEnded_NoAdvance(S, startOk) ==
  LET S1 == addToLog(S, "audio finished", 0)
  IN [S1 EXCEPT !.audioQueue = IF @ = <<>> THEN @ ELSE Tail(@),
                !.currentAudio = NullAudio,
                !.isPlaying = FALSE]

onAudioEnded(S, startOk) ==
  LET S1 == addToLog(S, "audio finished", 0)
      S2 == [S1 EXCEPT !.audioQueue = IF @ = <<>> THEN @ ELSE Tail(@),
                       !.currentAudio = NullAudio,
                       !.isPlaying = FALSE]
  IN playNextAudio(S2, startOk)

\* onAudioError that leaves isPlaying as it is.
onAudioError_StillPlaying(S, error, startOk) ==
  LET S1 == addToLog(S, "audio error", error)
      S2 == [S1 EXCEPT !.audioQueue = IF @ = <<>> THEN @ ELSE Tail(@),
                       !.currentAudio = NullAudio]
  IN playNextAudio(S2, startOk)

\* onAudioError that leaves currentAudio as it is.
onAudioError_KeepCurrent(S, error, startOk) ==
  LET S1 == addToLog(S, "audio error", error)
      S2 == [S1 EXCEPT !.audioQueue = IF @ = <<>> THEN @ ELSE Tail(@),
                       !.isPlaying = FALSE]
  IN playNextAudio(S2, startOk)

onAudioError(S, error, startOk) ==
  LET S1 == addToLog(S, "audio error", error)
      S2 == [S1 EXCEPT !.audioQueue = IF @ = <<>> THEN @ ELSE Tail(@),
                       !.currentAudio = NullAudio,
                       !.isPlaying = FALSE]
  IN playNextAudio(S2, startOk)

startProgressUpdate(S) == [S EXCEPT !.progressInterval = TRUE]

onAudioCanPlay(S) == startProgressUpdate([S EXCEPT !.audioProgress = 0])

\* playAudioResponse that puts the segment at the front of the queue.
playAudioResponse_Front(S, url, startOk) ==
  LET segment == [url |-> FullUrl(url), text |-> "voice reply"]
      S1 == [S EXCEPT !.audioQueue = <<segment>> \o @,
                      !.arrived = Append(@, segment)]
  IN IF S1.currentAudio = NullAudio THEN playNextAudio(S1, startOk) ELSE S1

playAudioResponse(S, url, startOk) ==
  LET segment == [url |-> FullUrl(url), text |-> "voice reply"]
      S1 == [S EXCEPT !.audioQueue = Append(@, segment),
                      !.arrived = Append(@, segment)]
  IN IF S1.currentAudio = NullAudio THEN playNextAudio(S1, startOk) ELSE S1

handleLLMResponse(S, message, startOk) ==
  IF message.audio_url \notin {Undefined, ""}
    THEN playAudioResponse(S, message.audio_url, startOk)
    ELSE S

\* message.text.substring(0, 20) throws when the message carries no text; the
\* texts of the model are shorter than 20 characters.
handleTTSSentenceComplete(S, message, startOk) ==
  IF message.audio_url \notin {Undefined, ""}
    THEN IF message.text = Undefined
           THEN addToLog(S, "message handling error", "TypeError")
           ELSE LET segment == [url |-> FullUrl(message.audio_url),
                                text |-> message.text]
                    S1 == addToLog(S, "received TTS audio", message.text)
                    S2 == [S1 EXCEPT !.audioQueue = Append(@, segment),
                                     !.arrived = Append(@, segment)]
                IN IF ~S2.isPlaying THEN playNextAudio(S2, startOk) ELSE S2
    ELSE S

(***************************************************************************)
(* Inbound frames.                                                         *)
(***************************************************************************)
\* A frame is its text: well-formed JSON of a message, or not JSON at all.
Message(type, client_id, status, text, content, audio_url, message) ==
  [type |-> type, client_id |-> client_id, status |-> status, text |-> text,
   content |-> content, audio_url |-> audio_url, message |-> message]

Frame(msg) == [json |-> TRUE, message |-> msg]

Malformed ==
  [json |-> FALSE,
   message |-> Message(Undefined, Undefined, Undefined, Undefined, Undefined,
                       Undefined, Undefined)]

\* The types handleServerMessage has a case for.
KnownTypes ==
  {"connection", "start", "stop", "recognition_result", "llm_stream_chunk",
   "llm_response", "error", "tts_sentence_complete"}

\* handleServerMessage with a default case that reports the message as an error.
handleServerMessage_DefaultError(S, frame, startOk) ==
  IF ~frame.json
    THEN addToLog(S, "message handling error", "SyntaxError")
    ELSE LET message == frame.message
         IN CASE message.type = "connection" ->
                   addToLog([S EXCEPT !.clientId = message.client_id],
                            "connected, client id", message.client_id)
              [] message.type = "start" ->
                   IF message.status = "success"
                     THEN addToLog(S, "voice chat started", 0) ELSE S
              [] message.type = "stop" ->
                   IF message.status = "success"
                     THEN addToLog(S, "voice chat stopped", 0) ELSE S
              [] message.type = "recognition_result" ->
                   handleRecognitionResult(S, message)
              [] message.type = "llm_stream_chunk" ->
                   handleLLMStreamChunk(S, message)
              [] message.type = "llm_response" ->
                   handleLLMResponse(S, message, startOk)
              [] message.type = "tts_sentence_complete" ->
                   handleTTSSentenceComplete(S, message, startOk)
              [] OTHER -> handleError(S, message)

handleServerMessage(S, frame, startOk) ==
  IF ~frame.json
    THEN addToLog(S, "message handling error", "SyntaxError")
    ELSE LET message == frame.message
         IN CASE message.type = "connection" ->
                   addToLog([S EXCEPT !.clientId = message.client_id],
                            "connected, client id", message.client_id)
              [] message.type = "start" ->
                   IF message.status = "success"
                     THEN addToLog(S, "voice chat started", 0) ELSE S
              [] message.type = "stop" ->
                   IF message.status = "success"
                     THEN addToLog(S, "voice chat stopped", 0) ELSE S
              [] message.type = "recognition_result" ->
                   handleRecognitionResult(S, message)
              [] message.type = "llm_stream_chunk" ->
                   handleLLMStreamChunk(S, message)
              [] message.type = "llm_response" ->
                   handleLLMResponse(S, message, startOk)
              [] message.type = "error" -> handleError(S, message)
              [] message.type = "tts_sentence_complete" ->
                   handleTTSSentenceComplete(S, message, startOk)
              [] OTHER -> S

AudioUrls == {"/a1", "/a2", ""}
Texts == {"t1", Undefined}
Contents == {"He", "llo"}

AudioFrames ==
  {Frame(Message("tts_sentence_complete", Undefined, Undefined, text, Undefined,
                 url, Undefined)) : text \in Texts, url \in AudioUrls}
  \cup
  {Frame(Message("llm_response", Undefined, Undefined, Undefined, Undefined,
                 url, Undefined)) : url \in AudioUrls \cup {Undefined}}

ChatFrames ==
  {Frame(Message("recognition_result", Undefined, Undefined, "hi", Undefined,
                 Undefined, Undefined)),
   Frame(Message("connection", "c1", Undefined, Undefined, Undefined,
                 Undefined, Undefined))}
  \cup
  {Frame(Message("llm_stream_chunk", Undefined, Undefined, Undefined, content,
                 Undefined, Undefined)) : content \in Contents}

\* socket.onmessage of an open socket delivers a frame of the set F.
Receive(F) ==
  /\ TaskFree
  /\ \E s \in 1..Len(sockets) : sockets[s].readyState = "OPEN"
  /\ Len(arrived) < MaxSegments
  /\ Len(conversationHistory) < MaxEntries
  /\ \E frame \in F, startOk \in BOOLEAN :
       Set(handleServerMessage(
             [Run("onmessage") EXCEPT
                !.received = <<frame>>,
                !.chunks = IF frame.json /\ frame.message.type = "llm_stream_chunk"
                             THEN Append(@, frame.message.content) ELSE @],
             frame, startOk))

OnAudioMessage == Receive(AudioFrames)

OnChatMessage == Receive(ChatFrames)

\* Frames the dispatcher has no case for: text that is not JSON, a type the
\* switch does not know (with and without fields of the known messages), and
\* a message without a type.
DroppedFrames ==
  {Malformed,
   Frame(Message("pong", Undefined, Undefined, Undefined, Undefined,
                 Undefined, Undefined)),
   Frame(Message("audio", "c9", "success", "t1", "He", "/a1", "oops")),
   Frame(Message(Undefined, Undefined, Undefined, Undefined, Undefined,
                 Undefined, Undefined))}

OnDroppedMessage == Receive(DroppedFrames)

(***************************************************************************)
(* The <audio> element: lines 79 to 84.                                    *)
(***************************************************************************)
Progress == {0, 50, 100}

\* Enough of the source has loaded: the pending play() promise resolves and
\* canplay fires.
CanPlay ==
  /\ TaskFree /\ player = "loading"
  /\ Set(onAudioCanPlay([Run("canplay") EXCEPT !.player = "playing"]))

\* Playback reaches the end of the source.
Ended ==
  /\ TaskFree /\ player = "playing"
  /\ \E startOk \in BOOLEAN :
       Set(onAudioEnded([Run("ended") EXCEPT !.player = "ended"], startOk))

\* The source cannot be loaded or decoded: error fires at the element, and a
\* play() promise still pending is rejected after it.
MediaError ==
  /\ TaskFree /\ player \in {"loading", "playing", "paused"}
  /\ \E startOk \in BOOLEAN :
       LET S1 == onAudioError([Run("error") EXCEPT !.player = "error"],
                              "media error", startOk)
       IN Set([S1 EXCEPT !.rejections = @ + IF player = "loading" THEN 1 ELSE 0])

\* The catch of playNextAudio runs for a rejected play() promise.
PlayRejected ==
  /\ closeEventDue = 0 /\ rejections > 0
  /\ \E startOk \in BOOLEAN :
       Set(onAudioError([Run("play catch") EXCEPT !.rejections = @ - 1],
                        "play rejected", startOk))

\* The interval of startProgressUpdate fires (every 100 ms).
ProgressTick ==
  /\ TaskFree /\ progressInterval /\ player = "playing"
  /\ \E p \in Progress : Set([Run("progress") EXCEPT !.audioProgress = p])

(***************************************************************************)
(* Teardown: lines 545 to 553.                                             *)
(***************************************************************************)
\* The onUnmounted hook; the audioPlayer ref is null from then on.
onUnmounted(S) ==
  LET S1 == stopHeartbeat(S)
      S2 == IF S1.socket # 0 THEN close(S1, S1.socket) ELSE S1
      S3 == IF S2.progressInterval THEN [S2 EXCEPT !.progressInterval = FALSE] ELSE S2
  IN [S3 EXCEPT !.mounted = FALSE]

\* The component is unmounted.
Unmount ==
  /\ TaskFree /\ mounted
  /\ Set(onUnmounted(Run("onUnmounted")))

NextConn ==
  \/ ClickConnect
  \/ ReconnectTimer
  \/ GraceElapsed
  \/ ConnectionTimeout
  \/ OnOpen
  \/ OnClose
  \/ OnError
  \/ ClickDisconnect
  \/ HeartbeatTick

SpecConn == Init /\ [][NextConn]_vars

(***************************************************************************)
(* The user connects once and then leaves the client alone; the first      *)
(* socket may open, every later attempt fails.  MaxAttempts is more sockets *)
(* than the reconnect limit lets the client create.                        *)
(***************************************************************************)
FirstConnect == sockets = <<>> /\ ClickConnect

FirstOpen == Len(sockets) = 1 /\ OnOpen

AutoReconnect == ReconnectTimerWithin(MaxAttempts)

AutoResume == GraceElapsedWithin(MaxAttempts)

NextFail ==
  \/ FirstConnect
  \/ FirstOpen
  \/ AutoReconnect
  \/ AutoResume
  \/ ConnectionTimeout
  \/ OnClose
  \/ OnError
  \/ HeartbeatTick

\* A timer that is pending, a connectWebSocket call that is suspended, a
\* socket that has not failed yet or a close event that is due.
Due ==
  \/ AutoReconnect
  \/ AutoResume
  \/ ConnectionTimeout
  \/ OnError
  \/ OnClose

\* Time passes: while a timer is pending or a socket has yet to fail, one of
\* these events happens.
SpecFail == Init /\ [][NextFail]_vars /\ WF_vars(Due)

NextTeardown ==
  \/ ClickConnect
  \/ ReconnectTimer
  \/ GraceElapsed
  \/ ConnectionTimeout
  \/ OnOpen
  \/ OnClose
  \/ OnError
  \/ HeartbeatTick
  \/ Unmount

SpecTeardown == Init /\ [][NextTeardown]_vars

NextParams ==
  \/ ClickConnect
  \/ OnOpen
  \/ OnClose
  \/ ClickDisconnect
  \/ FetchDone
  \/ SelectModel
  \/ TypeHistoryId
  \/ ChangeHistoryId
  \/ ClickCreateHistory
  \/ CreateDone
  \/ ClickStartVoiceChat
  \/ ClickStopVoiceChat

SpecParams == Init /\ [][NextParams]_vars

NextAudio ==
  \/ ClickConnect
  \/ OnOpen
  \/ OnAudioMessage
  \/ CanPlay
  \/ Ended
  \/ MediaError
  \/ PlayRejected
  \/ ProgressTick

SpecAudio == Init /\ [][NextAudio]_vars

\* The element goes on with what it was given: a source that is loading
\* becomes playable unless it fails, a source that is playing reaches its end
\* unless it fails, and the reaction of a rejected play() promise runs.
SpecAudioLive ==
  /\ SpecAudio
  /\ WF_vars(CanPlay)
  /\ WF_vars(Ended)
  /\ WF_vars(PlayRejected)

NextChat ==
  \/ ClickConnect
  \/ OnOpen
  \/ OnChatMessage

SpecChat == Init /\ [][NextChat]_vars

NextDispatch ==
  \/ ClickConnect
  \/ OnOpen
  \/ OnChatMessage
  \/ OnAudioMessage
  \/ OnDroppedMessage

SpecDispatch == Init /\ [][NextDispatch]_vars

(***************************************************************************)
(* Properties.                                                             *)
(***************************************************************************)
\* The latest step logged `message`.
Logged(l, message) == \E i \in 1..Len(l) : l[i][1] = message

\* The latest step handled a connection failure: a transport error or a
\* timeout (handleConnectionError), or a close with a code other than 1000.
FailureHandled(l) ==
  \E i \in 1..Len(l) :
    \/ l[i][1] = "connection error"
    \/ l[i][1] = "closed" /\ l[i][2] # NormalClosure

Pending(timers) == BagCardinality(timers)

Waiting(queue, playing) ==
  IF playing /\ queue # <<>> THEN Tail(queue) ELSE queue

\* C1: segments become the playback target in exactly their arrival order
\* (the segments played so far followed by those still waiting are the
\* arrivals, none skipped or reordered), one target at a time, and an enqueue
\* that arrives during playback leaves the target alone and only appends.
C1_FifoOneAtATime ==
  [][ /\ arrived' = played' \o Waiting(audioQueue', isPlaying')
      /\ isPlaying' <=> currentAudio' # NullAudio
      /\ isPlaying' => audioQueue' # <<>> /\ currentAudio' = Head(audioQueue')
      /\ (isPlaying /\ arrived' # arrived) =>
           /\ isPlaying' /\ currentAudio' = currentAudio
           /\ played' = played
           /\ audioQueue' = Append(audioQueue, arrived'[Len(arrived')]) ]_vars

C1_Witness ==
  /\ last = "onmessage" /\ isPlaying
  /\ Len(played) = 2 /\ Len(audioQueue) = 2
  /\ played[1] # played[2]
  /\ audioQueue[1] # audioQueue[2]

\* C2: when the playing segment completes or errors, the queue loses exactly
\* its head, and if segments remain the new head is the playback target at
\* the end of the same step.
C2_AdvanceOnCompletion ==
  [][ (isPlaying /\ last' \in {"ended", "error", "play catch"}) =>
        /\ audioQueue' = Tail(audioQueue)
        /\ Len(audioQueue') = Len(audioQueue) - 1
        /\ audioQueue' # <<>> =>
             /\ isPlaying' /\ currentAudio' = Head(audioQueue')
             /\ played' = Append(played, Head(audioQueue'))
        /\ audioQueue' = <<>> => ~isPlaying' /\ currentAudio' = NullAudio ]_vars

C2_Witness ==
  /\ last \in {"ended", "error"} /\ isPlaying
  /\ Len(played) = 2 /\ Len(audioQueue) = 1 /\ Len(arrived) = 2

\* C3: a playback failure removes only the offending segment: a segment that
\* is loading or playing without a failure of its own keeps its place at the
\* head until the element reports its end or its error.
C3_FailureDropsOnlyOffender ==
  [][ (isPlaying /\ player \in {"loading", "playing"}
         /\ last' \notin {"ended", "error"}) =>
        /\ Len(audioQueue') >= Len(audioQueue)
        /\ currentAudio' = currentAudio ]_vars

\* C4: the reconnect counter never exceeds 3; a reconnect is scheduled only
\* by a failure that found the counter below 3; every failure below the limit
\* counts, only an open resets the counter, and a failure at the limit
\* schedules nothing.
C4_ReconnectBounded ==
  [][ /\ reconnectCount <= maxReconnectAttempts
      /\ reconnectCount' <= maxReconnectAttempts
      /\ Pending(reconnectTimers') > Pending(reconnectTimers) =>
           reconnectCount < maxReconnectAttempts /\ FailureHandled(logs')
      /\ (FailureHandled(logs') /\ reconnectCount < maxReconnectAttempts) =>
           reconnectCount' = reconnectCount + 1
      /\ (FailureHandled(logs') /\ reconnectCount = maxReconnectAttempts) =>
           /\ reconnectTimers' = reconnectTimers
           /\ reconnectCount' = reconnectCount
      /\ reconnectCount' < reconnectCount => last' = "onopen" ]_vars

C4_Witness ==
  /\ reconnectCount = maxReconnectAttempts
  /\ FailureHandled(logs)
  /\ ~Logged(logs, "reconnect in")

\* C5: a scheduled reconnect is attempt N = the counter after its increment by
\* exactly 1, N in 1..3, with delay 1000 * N; the counter changes only by such
\* an increment or by the reset to 0 of a successful open, so N numbers the
\* attempts since the last open.
C5_LinearBackoff ==
  [][ /\ Pending(reconnectTimers') > Pending(reconnectTimers) =>
           /\ reconnectCount' = reconnectCount + 1
           /\ reconnectCount' \in 1..maxReconnectAttempts
           /\ reconnectTimers' =
                reconnectTimers (+) SetToBag({1000 * reconnectCount'})
           /\ logs'[Len(logs')] = <<"reconnect in", 1000 * reconnectCount'>>
      /\ reconnectCount' # reconnectCount =>
           \/ last' = "onopen" /\ reconnectCount' = 0
           \/ /\ reconnectCount' = reconnectCount + 1
              /\ FailureHandled(logs')
              /\ Pending(reconnectTimers') = Pending(reconnectTimers) + 1 ]_vars

C5_Witness ==
  /\ reconnectCount = 3
  /\ BagIn(1000, reconnectTimers)
  /\ BagIn(2000, reconnectTimers)
  /\ BagIn(3000, reconnectTimers)

\* C6: a close event with code 1000 schedules no reconnect and leaves the
\* reconnect counter as it is, whatever its value.
C6_NormalCloseNoReconnect ==
  [][ (last' = "onclose" /\ logs'[1] = <<"closed", NormalClosure>>) =>
        /\ reconnectCount' = reconnectCount
        /\ reconnectTimers' = reconnectTimers ]_vars

C6_Witness ==
  /\ last = "onclose"
  /\ logs = <<<<"closed", NormalClosure>>>>
  /\ reconnectCount > 0
  /\ reconnectCount < maxReconnectAttempts

\* C7: after the user disconnects, no reconnect is scheduled and no socket is
\* created until the user calls connect again.
C7_DisconnectIsFinal ==
  [][ (userClosed /\ userClosed') =>
        /\ Len(sockets') = Len(sockets)
        /\ Pending(reconnectTimers') <= Pending(reconnectTimers) ]_vars

\* The three conditions of a set_params frame, and the steps that run
\* updateParams: the change events, and createNewHistory once it has an id.
ParamsReady(S) == IsOpen(S) /\ S.selectedModel # "" /\ S.historyId # ""

RanUpdateParams(S) ==
  \/ S.last = "updateParams"
  \/ S.last = "createNewHistory resumed" /\ Logged(S.logs, "created a new conversation")

\* C8: a step that runs updateParams sends exactly one set_params frame, with
\* the model and the history id, when the socket is open and both are
\* non-empty, and no frame otherwise; updateParams itself changes nothing but
\* the log.
C8_SetParamsIff ==
  [][ /\ RanUpdateParams(Cur') =>
           sent' = IF ParamsReady(Cur')
                     THEN <<<<socket', <<"set_params", selectedModel', historyId'>>>>>>
                     ELSE <<>>
      /\ ~RanUpdateParams(Cur') =>
           \A i \in 1..Len(sent') : sent'[i][2][1] # "set_params"
      /\ last' = "updateParams" =>
           [Cur' EXCEPT !.logs = <<>>, !.sent = <<>>, !.last = "",
                        !.selectedModel = ""]
             = [Cur EXCEPT !.logs = <<>>, !.sent = <<>>, !.last = "",
                           !.selectedModel = ""] ]_vars

C8_Witness ==
  /\ last = "updateParams"
  /\ sent = <<<<socket, <<"set_params", "m1", "h1">>>>>>

\* The sockets that are connecting or open.
Live == {s \in 1..Len(sockets) : sockets[s].readyState \in {"CONNECTING", "OPEN"}}

\* C9: at most one socket is connecting or open at any time, and a socket
\* that is connecting or open is the one socket.value refers to.
C9_OneLiveSocket == Cardinality(Live) <= 1 /\ Live \subseteq {socket}

\* The assistant entries of the conversation.
Assistants ==
  {i \in 1..Len(conversationHistory) : conversationHistory[i].sender = "assistant"}

\* C10: once chunks have arrived (none of the entries held the streaming
\* marker before the first), the conversation holds exactly one assistant
\* entry, and its text is the concatenation of the chunks in arrival order.
C10_OneEntryPerStream ==
  chunks # <<>> =>
    /\ Cardinality(Assistants) = 1
    /\ \A i \in Assistants : conversationHistory[i].text = chunks

\* The entries that hold the streaming marker.
Building ==
  {i \in 1..Len(conversationHistory) :
     conversationHistory[i].className = "assistant-response-building"}

\* C11: at most one conversation entry holds the streaming marker.
C11_OneMarker == Cardinality(Building) <= 1

\* Every ping of the latest step went out on a socket that is open, and a
\* tick that found the socket not open sent nothing and stopped the heartbeat.
PingOnlyWhenOpen ==
  /\ \A i \in 1..Len(sent') :
       sent'[i][2] = "ping" =>
         /\ last' = "heartbeat"
         /\ sent'[i][1] # 0
         /\ sockets[sent'[i][1]].readyState = "OPEN"
  /\ (last' = "heartbeat" /\ ~IsOpen(Cur)) => sent' = <<>> /\ ~heartbeatInterval'
  /\ (last' = "heartbeat" /\ IsOpen(Cur)) =>
       sent' = <<<<socket, "ping">>>> /\ heartbeatInterval'

\* C12 as stated: between tasks, whenever the heartbeat interval is set the
\* current socket is open; and a ping is never sent on a socket that is not
\* open (a tick that finds it not open stops the heartbeat instead).
C12_HeartbeatOnlyWhileOpen ==
  [][ /\ (heartbeatInterval' /\ TaskFree') => IsOpen(Cur')
      /\ PingOnlyWhenOpen ]_vars

\* C12 amended: whenever the heartbeat interval is set, isConnected is true
\* (the socket may already be closing or replaced); and a ping is never sent
\* on a socket that is not open (a tick that finds it not open stops the
\* heartbeat instead).
C12_HeartbeatOnlyWhileConnected ==
  [][ /\ heartbeatInterval' => isConnected'
      /\ PingOnlyWhenOpen ]_vars

C12_Witness ==
  /\ last = "heartbeat" /\ ~heartbeatInterval /\ sent = <<>>
  /\ isConnected /\ socket # 0 /\ sockets[socket].readyState = "CLOSING"

\* C13: after a transport error, and after a close with a code other than
\* 1000, the heartbeat is stopped, isConnected is false, and a reconnect was
\* scheduled only if the counter was below 3.
C13_SameFailurePath ==
  [][ (\/ last' = "onerror"
       \/ last' = "onclose" /\ logs'[1][2] # NormalClosure) =>
        /\ ~heartbeatInterval'
        /\ ~isConnected'
        /\ Pending(reconnectTimers') > Pending(reconnectTimers) =>
             reconnectCount < maxReconnectAttempts ]_vars

\* The frame is not JSON, or its type is none of the known ones.
Dropped(frame) == ~frame.json \/ frame.message.type \notin KnownTypes

\* C14: a frame that is not JSON or has an unknown type changes nothing of
\* the client (client id, conversation, audio queue, playback, connection,
\* reconnect counter, the sockets and their handlers): a malformed frame adds
\* one log entry, an unknown type adds none, and nothing is sent, so the next
\* frame meets the state the dropped one met.
C14_DroppedFrames ==
  [][ (received' # <<>> /\ Dropped(received'[1])) =>
        /\ [Cur' EXCEPT !.logs = <<>>, !.last = "", !.received = <<>>]
             = [Cur EXCEPT !.logs = <<>>, !.last = "", !.received = <<>>,
                           !.sent = <<>>]
        /\ logs' = IF received'[1].json
                     THEN <<>>
                     ELSE <<<<"message handling error", "SyntaxError">>>> ]_vars

C14_Witness ==
  /\ received = <<Malformed>>
  /\ logs = <<<<"message handling error", "SyntaxError">>>>
  /\ clientId = "c1" /\ isPlaying
  /\ Len(conversationHistory) = 2 /\ Len(audioQueue) = 2

\* C15: isPlaying is true exactly when currentAudio is set, and while a
\* segment is playing the queue is not empty and currentAudio is its head.
C15_MarkersAgree ==
  /\ isPlaying <=> currentAudio # NullAudio
  /\ isPlaying => audioQueue # <<>> /\ currentAudio = Head(audioQueue)

\* Playing, after a failure, with a segment of each enqueue path in the queue.
C15_Witness ==
  /\ isPlaying /\ Len(audioQueue) = 2 /\ Len(played) = 2
  /\ currentAudio = audioQueue[1]
  /\ audioQueue[1].text # audioQueue[2].text
  /\ "voice reply" \in {audioQueue[1].text, audioQueue[2].text}

Drained == audioQueue = <<>> /\ ~isPlaying /\ currentAudio = NullAudio

\* C16: whenever segments are queued, the queue eventually becomes empty with
\* isPlaying false and currentAudio cleared, whichever of them fail to load,
\* to play or to start.
C16_QueueDrains == (audioQueue # <<>>) ~> Drained

\* The queue has drained after three segments of which one failed to start.
C16_Witness ==
  /\ Drained /\ Len(arrived) = 3 /\ Len(played) = 3
  /\ last = "play catch"
  /\ logs = <<<<"audio error", "play rejected">>>>

\* Not connected, no heartbeat, no timer pending, no connectWebSocket call
\* suspended and no socket connecting or open.
Quiescent ==
  /\ ~isConnected /\ ~heartbeatInterval
  /\ reconnectTimers = EmptyBag /\ timeoutTimers = {}
  /\ graceWaiting = 0 /\ Live = {}

\* C17: when every attempt fails and the user does nothing, the client comes
\* to rest: from some point on it is quiescent for good, which leaves no step
\* that could open a socket, and it has created fewer sockets than the model
\* allows.
C17_RetriesExhaust ==
  <>[](Quiescent /\ Len(sockets) < MaxAttempts)

\* At rest after the limit of three automatic attempts.
C17_Witness ==
  /\ Quiescent /\ reconnectCount = maxReconnectAttempts
  /\ Len(sockets) = maxReconnectAttempts + 1
  /\ sockets[1].opened

\* C18: at most one reconnect timer is pending at any time, and the close
\* event that reports a failure its error event has already reported neither
\* counts the failure again nor schedules another reconnect.
C18_OneReconnectPerFailure ==
  [][ /\ Pending(reconnectTimers') <= 1
      /\ closeEventDue # 0 =>
           /\ reconnectCount' = reconnectCount
           /\ reconnectTimers' = reconnectTimers ]_vars

\* C19: the connectionTimeout timer of an attempt acts on the socket of that
\* attempt alone: when it fires it closes no other socket, and it records a
\* timeout failure only if its own socket is still the current one.
C19_TimeoutOwnSocket ==
  [][ last' = "connectionTimeout" =>
        \A t \in timeoutTimers \ timeoutTimers' :
          /\ \A s \in 1..Len(sockets) : sockets'[s] # sockets[s] => s = t
          /\ Logged(logs', "connection error") => socket = t ]_vars

\* The socket the close or error event of the latest step was fired at.
EventSocket(s) ==
  /\ last' \in {"onclose", "onerror"}
  /\ \/ closeEventDue = s
     \/ closeEventDue = 0 /\ sockets'[s] # sockets[s]

\* C20: while the current socket is open, a close or error event of another
\* socket leaves isConnected, the heartbeat, the reconnect counter and the
\* reconnect timers as they are.
C20_StaleEventsIgnored ==
  [][ \A s \in 1..Len(sockets) :
        (EventSocket(s) /\ s # socket /\ IsOpen(Cur)) =>
          /\ isConnected' = isConnected
          /\ heartbeatInterval' = heartbeatInterval
          /\ reconnectCount' = reconnectCount
          /\ reconnectTimers' = reconnectTimers ]_vars

\* C21: when the teardown has run the heartbeat is stopped and the current
\* socket, if any, is closing or closed; and no step after the teardown
\* creates a socket.
C21_TeardownIsFinal ==
  [][ /\ last' = "onUnmounted" =>
           /\ ~heartbeatInterval'
           /\ socket' # 0 => sockets'[socket'].readyState \in {"CLOSING", "CLOSED"}
      /\ (~mounted /\ ~mounted') => Len(sockets') = Len(sockets) ]_vars

\* C22: the content of an llm_stream_chunk never lands in an entry that
\* stands before a user entry: an entry whose text the chunk changed, or that
\* the chunk created with its content, has no user entry after it.
C22_ChunkAfterUserEntry ==
  [][ (received' # <<>> /\ received'[1].json
         /\ received'[1].message.type = "llm_stream_chunk") =>
        \A i \in 1..Len(conversationHistory') :
          (\/ i > Len(conversationHistory) /\ conversationHistory'[i].text # <<>>
           \/ /\ i <= Len(conversationHistory)
              /\ conversationHistory'[i].text # conversationHistory[i].text) =>
            \A j \in 1..Len(conversationHistory') :
              conversationHistory'[j].sender = "user" => j < i ]_vars

====
